---- MODULE Spec2Model ----
(***************************************************************************)
(* Frame protocol and codec core of the layered receiver:                  *)
(*   algorithms.py      bytes_to_bits, bits_to_bytes, verify_crc,          *)
(*                      hamming74_decode                                   *)
(*   link.py            LinkLayer.apply_crc / verify_crc / apply_hamming / *)
(*                      build_frame / parse_frame                          *)
(*   presentation.py    ascii_to_bits, bits_to_ascii                       *)
(*   layered_receiver.py LayeredReceiver.process_frame,                    *)
(*                      _process_hamming_frame, reset_stats                *)
(* Bytes are integers 0..255, bit lists are sequences over {0,1}, texts    *)
(* are sequences of character codes.  Positions reported by the code are   *)
(* 0-based, as in the source; sequences here are 1-based.                  *)
(***************************************************************************)
EXTENDS Integers, Sequences, FiniteSets, TLC

\* ------------------------------------------------------------------ bounds
MaxDataBits == 5        \* longest data bit list given to apply_hamming
MaxCodeFlips == 3        \* bits flipped in a Hamming code word
MaxCodeBits == 8        \* longest bit list given to hamming74_decode directly
MaxPayloadLen == 2      \* longest payload given to build_frame
MaxDamagedLen == 1      \* longest payload of a frame the channel damages
MaxFrameFlips == 1      \* bit flips applied to a built frame
MaxBodyLen == 5         \* longest body sealed behind a hand-written header
MaxTextLen == 1         \* longest text the sender transmits
MaxWireFlips == 1       \* bits the channel flips in one frame
MaxSessionFrames == 3   \* frames of any kind at the start of a session
MaxBufferFrames == 103  \* frames one receiver processes between two resets
NumClients == 2         \* WebSocket connections open at once
MaxServerFrames == 3    \* frames the connections deliver in all
MaxPrintableLen == 3    \* longest printable text given to ascii_to_bits
MaxBufferLen == 3       \* longest byte buffer given to bytes_to_bits
MaxAsciiBits == 9       \* longest bit list given to bits_to_ascii directly
MaxNoiseBits == 3       \* longest bit list given to inject_noise
MaxNoiseCalls == 2      \* observed calls of inject_noise with the same arguments

\* ------------------------------------------------------- generic helpers
Bit == {0, 1}
Byte == 0..255

Xor(a, b) == (a + b) % 2

\* the function f over 1..n as an explicit tuple
AsSeq(f) == <<>> \o f

\* s[a:b] of Python for 0 <= a, clipped to the sequence
Slice(s, a, b) ==
    LET hi == IF b > Len(s) THEN Len(s) ELSE b
    IN  IF a >= hi THEN <<>> ELSE AsSeq([k \in 1..(hi - a) |-> s[a + k]])

RECURSIVE Zeros(_)
Zeros(n) == IF n <= 0 THEN <<>> ELSE <<0>> \o Zeros(n - 1)

\* the list s with the bit at 0-based position i complemented
FlipAt(s, i) == AsSeq([k \in 1..Len(s) |-> IF k = i + 1 THEN 1 - s[k] ELSE s[k]])

\* ------------------------------------------------- algorithms.py: bits/bytes
\* the bits of a byte, least significant first
ByteBits_lsb_first(byte) == AsSeq([i \in 1..8 |-> (byte \div (2 ^ (i - 1))) % 2])

\* (byte >> (7 - i)) & 1 for i = 0..7
ByteBits(byte) == AsSeq([i \in 1..8 |-> (byte \div (2 ^ (8 - i))) % 2])

RECURSIVE bytes_to_bits(_)
bytes_to_bits(data) ==
    IF data = <<>> THEN <<>>
    ELSE ByteBits(Head(data)) \o bytes_to_bits(Tail(data))

\* byte_val |= working_bits[i + j] << (7 - j) for j = 0..7
RECURSIVE PackBits(_, _)
PackBits(b, j) ==
    IF j > 8 THEN 0 ELSE b[j] * (2 ^ (8 - j)) + PackBits(b, j + 1)

RECURSIVE PackBytes(_)
PackBytes(bits) ==
    IF bits = <<>> THEN <<>>
    ELSE <<PackBits(Slice(bits, 0, 8), 1)>> \o PackBytes(Slice(bits, 8, Len(bits)))

\* bits_to_bytes with the padding put in front
bits_to_bytes_padding_left(bits) ==
    IF bits = <<>> THEN <<>>
    ELSE LET working_bits == Zeros((8 - (Len(bits) % 8)) % 8) \o bits
         IN  PackBytes(working_bits)

\* the caller's list after bits_to_bytes(bits): the padding is appended to
\* working_bits = bits.copy(), never to bits
CallerBitsAfterPacking(bits) == bits

bits_to_bytes(bits) ==
    IF bits = <<>> THEN <<>>
    ELSE LET working_bits == bits \o Zeros((8 - (Len(bits) % 8)) % 8)
         IN  PackBytes(working_bits)

\* ------------------------------------------------------------------ CRC-32
\* A 32-bit word is the tuple of its bits, w[k + 1] being the bit of
\* significance k.  binascii.crc32 / zlib.crc32: reflected CRC-32,
\* polynomial 0xEDB88320, initial value and final xor 0xFFFFFFFF.
PolyBits == {31, 30, 29, 27, 26, 24, 23, 21, 20, 19, 15, 9, 8, 5}

\* crc = (crc >> 1) ^ (0xEDB88320 if crc & 1 else 0)
CrcShift(c) ==
    AsSeq([j \in 1..32 |->
        Xor(IF j = 32 THEN 0 ELSE c[j + 1],
            IF c[1] = 1 /\ (j - 1) \in PolyBits THEN 1 ELSE 0)])

RECURSIVE CrcShiftN(_, _)
CrcShiftN(c, n) == IF n = 0 THEN c ELSE CrcShiftN(CrcShift(c), n - 1)

\* the 32-bit word of a byte value
ByteWord(n) == AsSeq([j \in 1..32 |-> IF j <= 8 THEN (n \div (2 ^ (j - 1))) % 2 ELSE 0])

\* the byte-wise table of zlib's crc32: eight shift steps of each byte value
CrcTable == AsSeq([n \in 1..256 |-> CrcShiftN(ByteWord(n - 1), 8)])

\* (crc ^ byte) & 0xFF
RECURSIVE LowByteXor(_, _, _)
LowByteXor(c, byte, j) ==
    IF j > 8 THEN 0
    ELSE Xor(c[j], (byte \div (2 ^ (j - 1))) % 2) * (2 ^ (j - 1)) + LowByteXor(c, byte, j + 1)

\* crc = table[(crc ^ byte) & 0xFF] ^ (crc >> 8)
CrcByte(c, byte) ==
    LET t == CrcTable[LowByteXor(c, byte, 1) + 1]
    IN  AsSeq([j \in 1..32 |-> Xor(IF j <= 24 THEN c[j + 8] ELSE 0, t[j])])

RECURSIVE CrcUpdate(_, _)
CrcUpdate(c, data) ==
    IF data = <<>> THEN c ELSE CrcUpdate(CrcByte(c, Head(data)), Tail(data))

crc32(data) ==
    LET c == CrcUpdate(AsSeq([j \in 1..32 |-> 1]), data)
    IN  AsSeq([j \in 1..32 |-> 1 - c[j]])

\* byte n (0 = least significant) of a 32-bit word
RECURSIVE WordByte(_, _, _)
WordByte(w, n, j) ==
    IF j > 7 THEN 0 ELSE w[8 * n + j + 1] * (2 ^ j) + WordByte(w, n, j + 1)

\* crc.to_bytes(4, 'big')
Word32ToBytes(w) == <<WordByte(w, 3, 0), WordByte(w, 2, 0), WordByte(w, 1, 0), WordByte(w, 0, 0)>>

\* int.from_bytes(b, 'big') for a 4-byte trailer
BytesToWord32(b) ==
    AsSeq([j \in 1..32 |-> (b[4 - ((j - 1) \div 8)] \div (2 ^ ((j - 1) % 8))) % 2])

\* int.from_bytes(b, 'big') for a 2-byte field, n.to_bytes(2, 'big')
BytesToInt16(b) == b[1] * 256 + b[2]
Int16ToBytes(n) == <<n \div 256, n % 256>>

\* Python's None for an optional integer argument
None == -1

\* ---------------------------------------------- link.py: LinkLayer CRC part
\* the trailer written least significant byte first
apply_crc_little(data) ==
    LET b == Word32ToBytes(crc32(data)) IN data \o <<b[4], b[3], b[2], b[1]>>

\* data + crc32(data).to_bytes(4, 'big')
apply_crc(data) == data \o Word32ToBytes(crc32(data))

\* LinkLayer.verify_crc: (is_valid, data)
LinkVerifyCrc(data_with_crc) ==
    IF Len(data_with_crc) < 4 THEN <<FALSE, <<>>>>
    ELSE LET n == Len(data_with_crc)
             data == Slice(data_with_crc, 0, n - 4)
             received_crc == BytesToWord32(Slice(data_with_crc, n - 4, n))
             calculated_crc == crc32(data)
         IN  <<received_crc = calculated_crc, data>>

\* verify_crc handing out the payload of valid frames only
verify_crc_dropping_invalid_payload(frame_bytes) ==
    IF Len(frame_bytes) < 7 THEN <<FALSE, <<>>>>
    ELSE LET n == Len(frame_bytes)
             data_part == Slice(frame_bytes, 0, n - 4)
             received_crc == BytesToWord32(Slice(frame_bytes, n - 4, n))
         IN  IF received_crc = crc32(data_part)
             THEN <<TRUE, Slice(data_part, 3, Len(data_part))>>
             ELSE <<FALSE, <<>>>>

\* algorithms.verify_crc: (is_valid, payload)
verify_crc(frame_bytes) ==
    IF Len(frame_bytes) < 7 THEN <<FALSE, <<>>>>
    ELSE LET n == Len(frame_bytes)
             data_part == Slice(frame_bytes, 0, n - 4)
             received_crc == BytesToWord32(Slice(frame_bytes, n - 4, n))
             calculated_crc == crc32(data_part)
             payload == Slice(data_part, 3, Len(data_part))
         IN  <<received_crc = calculated_crc, payload>>

\* ------------------------------------------------------------ Hamming(7,4)
\* the block with p0 computed from d3 and d2 only
EncodeBlock_short_parity(d) ==
    LET d3 == d[1]
        d2 == d[2]
        d1 == d[3]
        d0 == d[4]
        p0 == Xor(d3, d2)
        p1 == Xor(Xor(d3, d1), d0)
        p2 == Xor(Xor(d2, d1), d0)
    IN  <<p2, p1, d3, p0, d2, d1, d0>>

\* one block [p2, p1, d3, p0, d2, d1, d0] from the data bits [d3, d2, d1, d0]
EncodeBlock(d) ==
    LET d3 == d[1]
        d2 == d[2]
        d1 == d[3]
        d0 == d[4]
        p0 == Xor(Xor(d3, d2), d0)
        p1 == Xor(Xor(d3, d1), d0)
        p2 == Xor(Xor(d2, d1), d0)
    IN  <<p2, p1, d3, p0, d2, d1, d0>>

RECURSIVE EncodeBlocks(_)
EncodeBlocks(padded_bits) ==
    IF padded_bits = <<>> THEN <<>>
    ELSE EncodeBlock(Slice(padded_bits, 0, 4))
         \o EncodeBlocks(Slice(padded_bits, 4, Len(padded_bits)))

\* LinkLayer.apply_hamming
apply_hamming(data_bits) ==
    LET padded_bits == data_bits \o Zeros((4 - (Len(data_bits) % 4)) % 4)
    IN  EncodeBlocks(padded_bits)

\* the table with the entries of d2 and d1 exchanged
error_pos_map_swapped == <<3, 1, 2, 0, 5, 4, 6>>

\* syndrome 1..7 -> position in the block [p2, p1, d3, p0, d2, d1, d0]
error_pos_map == <<3, 1, 2, 0, 4, 5, 6>>

\* the syndrome s2 * 4 + s1 * 2 + s0 of one block
Syndrome(block) ==
    LET p2 == block[1]
        p1 == block[2]
        d3 == block[3]
        p0 == block[4]
        d2 == block[5]
        d1 == block[6]
        d0 == block[7]
        s0 == Xor(Xor(Xor(p0, d3), d2), d0)
        s1 == Xor(Xor(Xor(p1, d3), d1), d0)
        s2 == Xor(Xor(Xor(p2, d2), d1), d0)
    IN  s2 * 4 + s1 * 2 + s0

\* a block loop that records the correction without applying it
DecodeBlock_recording_only(block, start) ==
    LET syndrome == Syndrome(block)
        error_pos == error_pos_map[syndrome]
    IN  [data |-> <<block[3], block[5], block[6], block[7]>>,
         corrected |-> IF syndrome # 0 THEN <<start + error_pos>> ELSE <<>>]

\* a block loop recording the position inside the block only
DecodeBlock_local_positions(block, start) ==
    LET syndrome == Syndrome(block)
        error_pos == error_pos_map[syndrome]
        fixed == IF syndrome # 0 THEN FlipAt(block, error_pos) ELSE block
    IN  [data |-> <<fixed[3], fixed[5], fixed[6], fixed[7]>>,
         corrected |-> IF syndrome # 0 THEN <<error_pos>> ELSE <<>>]

\* one iteration of the block loop: the data bits and the corrections
DecodeBlock(block, start) ==
    LET syndrome == Syndrome(block)
        error_pos == error_pos_map[syndrome]
        fixed == IF syndrome # 0 THEN FlipAt(block, error_pos) ELSE block
    IN  [data |-> <<fixed[3], fixed[5], fixed[6], fixed[7]>>,
         corrected |-> IF syndrome # 0 THEN <<start + error_pos>> ELSE <<>>]

\* the loop over block_idx in range(num_blocks)
RECURSIVE DecodeBlocks(_, _, _)
DecodeBlocks(code_bits, block_idx, num_blocks) ==
    IF block_idx >= num_blocks
    THEN [data_bits |-> <<>>, corrected_positions |-> <<>>]
    ELSE LET start == block_idx * 7
             b == DecodeBlock(Slice(code_bits, start, start + 7), start)
             rest == DecodeBlocks(code_bits, block_idx + 1, num_blocks)
         IN  [data_bits |-> b.data \o rest.data_bits,
              corrected_positions |-> b.corrected \o rest.corrected_positions]

\* hamming74_decode without the length check: the whole blocks are decoded
hamming74_decode_unchecked(code_bits) ==
    LET r == DecodeBlocks(code_bits, 0, Len(code_bits) \div 7)
    IN  [raised |-> FALSE, data_bits |-> r.data_bits,
         corrected_positions |-> r.corrected_positions]

\* algorithms.hamming74_decode; raised stands for the ValueError
hamming74_decode(code_bits) ==
    IF Len(code_bits) % 7 # 0
    THEN [raised |-> TRUE, data_bits |-> <<>>, corrected_positions |-> <<>>]
    ELSE LET r == DecodeBlocks(code_bits, 0, Len(code_bits) \div 7)
         IN  [raised |-> FALSE, data_bits |-> r.data_bits,
              corrected_positions |-> r.corrected_positions]

\* LinkLayer.verify_hamming: (decoded_bits, corrected_positions, success)
verify_hamming(encoded_bits) ==
    LET r == hamming74_decode(encoded_bits)
    IN  IF r.raised THEN <<<<>>, <<>>, FALSE>>
        ELSE <<r.data_bits, r.corrected_positions, TRUE>>

\* ------------------------------------------------- link.py: frame building
\* build_frame with the sub-header counted in payload_length
build_frame_counting_subheader(payload, msg_type, original_bits_len, encoded_bits_len) ==
    IF msg_type = 2
    THEN IF original_bits_len # None /\ encoded_bits_len # None
         THEN [raised |-> FALSE,
               frame |-> apply_crc(((<<msg_type>> \o Int16ToBytes(Len(payload) + 4))
                                    \o (Int16ToBytes(original_bits_len)
                                        \o Int16ToBytes(encoded_bits_len)))
                                   \o payload)]
         ELSE [raised |-> TRUE, frame |-> <<>>]
    ELSE [raised |-> FALSE,
          frame |-> apply_crc((<<msg_type>> \o Int16ToBytes(Len(payload))) \o payload)]

\* build_frame emitting a plain frame when a Hamming length is missing
build_frame_without_length_check(payload, msg_type, original_bits_len, encoded_bits_len) ==
    LET header == <<msg_type>> \o Int16ToBytes(Len(payload))
    IN  IF msg_type = 2 /\ original_bits_len # None /\ encoded_bits_len # None
        THEN [raised |-> FALSE,
              frame |-> apply_crc((header \o (Int16ToBytes(original_bits_len)
                                              \o Int16ToBytes(encoded_bits_len)))
                                  \o payload)]
        ELSE [raised |-> FALSE, frame |-> apply_crc(header \o payload)]

\* LinkLayer.build_frame; raised stands for the ValueError.  Lengths are
\* within the two-byte fields (to_bytes(2, 'big') does not overflow).
build_frame(payload, msg_type, original_bits_len, encoded_bits_len) ==
    LET header == <<msg_type>> \o Int16ToBytes(Len(payload))
    IN  IF msg_type = 2
        THEN IF original_bits_len # None /\ encoded_bits_len # None
             THEN LET subheader == Int16ToBytes(original_bits_len)
                                   \o Int16ToBytes(encoded_bits_len)
                  IN  [raised |-> FALSE,
                       frame |-> apply_crc((header \o subheader) \o payload)]
             ELSE [raised |-> TRUE, frame |-> <<>>]
        ELSE [raised |-> FALSE, frame |-> apply_crc(header \o payload)]

\* parse_frame after the CRC check, without the comparison of the payload
\* length with the header
ParseFields_trusting_header(data_part) ==
    LET msg_type == data_part[1]
        header_size == IF msg_type = 2 THEN 7 ELSE 3
        payload == Slice(data_part, header_size, Len(data_part))
    IN  IF msg_type = 2 /\ Len(data_part) < 7
        THEN <<FALSE, msg_type, <<>>, 0, 0>>
        ELSE <<TRUE, msg_type, payload,
               IF msg_type = 2 THEN BytesToInt16(Slice(data_part, 3, 5)) ELSE 0,
               IF msg_type = 2 THEN BytesToInt16(Slice(data_part, 5, 7)) ELSE 0>>

\* parse_frame after the CRC check: header, sub-header, payload and the
\* length comparison
ParseFields(data_part) ==
    LET msg_type == data_part[1]
        payload_length == BytesToInt16(Slice(data_part, 1, 3))
        header_size == IF msg_type = 2 THEN 7 ELSE 3
        payload == Slice(data_part, header_size, Len(data_part))
    IN  IF msg_type = 2 /\ Len(data_part) < 7
        THEN <<FALSE, msg_type, <<>>, 0, 0>>
        ELSE <<Len(payload) = payload_length, msg_type, payload,
               IF msg_type = 2 THEN BytesToInt16(Slice(data_part, 3, 5)) ELSE 0,
               IF msg_type = 2 THEN BytesToInt16(Slice(data_part, 5, 7)) ELSE 0>>

\* parse_frame without the return on a CRC mismatch
parse_frame_unchecked(frame) ==
    IF Len(frame) < 7 THEN <<FALSE, 0, <<>>, 0, 0>>
    ELSE ParseFields(LinkVerifyCrc(frame)[2])

\* parse_frame returning the header's type byte on a CRC mismatch
parse_frame_leaking_type(frame) ==
    IF Len(frame) < 7 THEN <<FALSE, 0, <<>>, 0, 0>>
    ELSE IF ~LinkVerifyCrc(frame)[1] THEN <<FALSE, frame[1], <<>>, 0, 0>>
    ELSE ParseFields(LinkVerifyCrc(frame)[2])

\* LinkLayer.parse_frame:
\* (is_valid, msg_type, payload, original_bits_len, encoded_bits_len)
parse_frame(frame) ==
    IF Len(frame) < 7 THEN <<FALSE, 0, <<>>, 0, 0>>
    ELSE LET v == LinkVerifyCrc(frame)
             is_valid == v[1]
             data_part == v[2]
         IN  IF ~is_valid THEN <<FALSE, 0, <<>>, 0, 0>>
             ELSE ParseFields(data_part)

\* ------------------------------------------------------- presentation.py
\* ascii_to_bits with each character's bits least significant first
RECURSIVE ascii_to_bits_lsb_first(_)
ascii_to_bits_lsb_first(text) ==
    IF text = <<>> THEN <<>>
    ELSE AsSeq([i \in 1..8 |-> (Head(text) \div (2 ^ (i - 1))) % 2])
         \o ascii_to_bits_lsb_first(Tail(text))

RECURSIVE ascii_to_bits(_)
ascii_to_bits(text) ==
    IF text = <<>> THEN <<>>
    ELSE AsSeq([i \in 1..8 |-> (Head(text) \div (2 ^ (8 - i))) % 2])
         \o ascii_to_bits(Tail(text))

\* one character per byte: itself when printable, '?' (63) otherwise
RECURSIVE BitsToChars(_)
BitsToChars(working_bits) ==
    IF working_bits = <<>> THEN <<>>
    ELSE LET ascii_val == PackBits(Slice(working_bits, 0, 8), 1)
         IN  <<IF 32 <= ascii_val /\ ascii_val <= 126 THEN ascii_val ELSE 63>>
             \o BitsToChars(Slice(working_bits, 8, Len(working_bits)))

\* bits_to_ascii without the padding: a trailing partial byte is dropped
bits_to_ascii_dropping_partial_byte(bits, original_length) ==
    LET kept == IF original_length # None THEN Slice(bits, 0, original_length) ELSE bits
    IN  BitsToChars(Slice(kept, 0, 8 * (Len(kept) \div 8)))

bits_to_ascii(bits, original_length) ==
    LET kept == IF original_length # None THEN Slice(bits, 0, original_length) ELSE bits
        working_bits == IF Len(kept) % 8 # 0
                        THEN kept \o Zeros(8 - (Len(kept) % 8)) ELSE kept
    IN  BitsToChars(working_bits)

\* str.rstrip('\x00')
RECURSIVE RStripNul(_)
RStripNul(text) ==
    IF text # <<>> /\ text[Len(text)] = 0
    THEN RStripNul(Slice(text, 0, Len(text) - 1)) ELSE text

\* -------------------------------------------- layered_receiver.py: receiver
\* error_message = None
NoMessage == "<None>"

\* LayeredReceiver.__init__: the counters (clock totals are left out)
InitStats ==
    [total_received |-> 0, successful |-> 0, failed |-> 0, crc_valid |-> 0,
     crc_invalid |-> 0, hamming_corrected |-> 0, hamming_failed |-> 0]

\* bytes.hex(): two hexadecimal digits (0..15) per byte
RECURSIVE Hex(_)
Hex(data) ==
    IF data = <<>> THEN <<>>
    ELSE <<Head(data) \div 16, Head(data) % 16>> \o Hex(Tail(data))

\* the ReceptionResult built at the start of process_frame.  An optional
\* list (corrected_positions) is <<>> for None and <<list>> when set.
NewResult(frame_bytes) ==
    [success |-> FALSE, original_frame_hex |-> Hex(frame_bytes),
     frame_size |-> Len(frame_bytes), msg_type |-> 0, algorithm |-> "unknown",
     recovered_message |-> <<>>, error_message |-> NoMessage,
     corrected_positions |-> <<>>, crc_valid |-> FALSE,
     hamming_corrections |-> 0, total_bits |-> Len(frame_bytes) * 8]

\* the chain without its final else
Classify_without_default(tentative_msg_type) ==
    IF tentative_msg_type \in {1, 0, 5, 4} THEN "crc"
    ELSE IF tentative_msg_type \in {2, 3, 6, 7} THEN "hamming"
    ELSE "unknown"

\* the if / elif chain on tentative_msg_type
Classify(tentative_msg_type) ==
    IF tentative_msg_type = 1 THEN "crc"
    ELSE IF tentative_msg_type = 2 THEN "hamming"
    ELSE IF tentative_msg_type \in {3, 6, 7} THEN "hamming"
    ELSE IF tentative_msg_type \in {0, 5, 4} THEN "crc"
    ELSE "hamming"

\* is_crc_valid, msg_type, payload = <tuple>: the ValueError of a tuple of
\* another size
Unpack3(t) ==
    IF Len(t) = 3 THEN [raised |-> FALSE, message |-> ""]
    ELSE IF Len(t) > 3
         THEN [raised |-> TRUE, message |-> "too many values to unpack (expected 3)"]
         ELSE [raised |-> TRUE, message |-> "not enough values to unpack"]

\* LayeredReceiver._process_hamming_frame:
\* (success, corrected_frame, error_positions)
process_hamming_frame(frame_bytes) ==
    IF Len(frame_bytes) < 7 THEN <<FALSE, frame_bytes, <<>>>>
    ELSE LET header == Slice(frame_bytes, 0, 3)
             payload_with_crc == Slice(frame_bytes, 3, Len(frame_bytes))
         IN  IF Len(payload_with_crc) < 4 THEN <<FALSE, frame_bytes, <<>>>>
             ELSE LET payload == Slice(payload_with_crc, 0, Len(payload_with_crc) - 4)
                      payload_bits == bytes_to_bits(payload)
                      valid_length == (Len(payload_bits) \div 7) * 7
                      trimmed_bits == Slice(payload_bits, 0, valid_length)
                  IN  IF Len(trimmed_bits) = 0 THEN <<FALSE, frame_bytes, <<>>>>
                      ELSE LET d == hamming74_decode(trimmed_bits)
                               corrected_hamming_bits == apply_hamming(d.data_bits)
                               corrected_payload == bits_to_bytes(corrected_hamming_bits)
                               corrected_header ==
                                   <<header[1]>> \o Int16ToBytes(Len(corrected_payload))
                               data_part == corrected_header \o corrected_payload
                               new_crc == Word32ToBytes(crc32(data_part))
                           IN  IF d.raised THEN <<FALSE, frame_bytes, <<>>>>
                               ELSE <<TRUE, data_part \o new_crc, d.corrected_positions>>

\* self.max_recent
max_recent == 100

\* self.stats[k] += 1 for every k in ks
Bump(st, ks) == [k \in DOMAIN st |-> IF k \in ks THEN st[k] + 1 ELSE st[k]]

\* an early return that leaves error_message unset
Fail_without_message(r, st, msg, ks) ==
    [result |-> r, stats |-> Bump(st, ks \cup {"failed"})]

\* an early return that forgets stats['failed']
Fail_without_counting(r, st, msg, ks) ==
    [result |-> [r EXCEPT !.error_message = msg], stats |-> Bump(st, ks)]

\* an early "return result" with an error: the message, the counters of
\* that exit and stats['failed']
Fail(r, st, msg, ks) ==
    [result |-> [r EXCEPT !.error_message = msg],
     stats |-> Bump(st, ks \cup {"failed"})]

\* presentation and application layers: bits -> text, success
Present(r, st, decoded_bits) ==
    LET recovered_text == bits_to_ascii(decoded_bits, None)
    IN  [result |-> [r EXCEPT !.recovered_message = RStripNul(recovered_text),
                              !.success = TRUE],
         stats |-> Bump(st, {"successful"})]

\* the CRC branch from the unpacking of parse_frame(frame_bytes), whose
\* value is t
CheckCrcFrame(r, st, t) ==
    IF Unpack3(t).raised
    THEN Fail(r, st, "Frame parsing error: " \o Unpack3(t).message, {})
    ELSE IF ~t[1] THEN Fail(r, st, "CRC validation failed", {"crc_invalid"})
    ELSE Present([r EXCEPT !.crc_valid = TRUE], Bump(st, {"crc_valid"}),
                 bytes_to_bits(t[3]))

\* the branch algorithm_type == "crc"
CrcBranch(r0, st, frame_bytes) ==
    CheckCrcFrame([r0 EXCEPT !.algorithm = "crc"], st, parse_frame(frame_bytes))

\* the Hamming branch after the CRC check of the corrected frame: the
\* corrections are recorded and the payload is decoded once more
FinalHammingDecode(r, st, corrections, payload) ==
    LET r2 == [r EXCEPT !.crc_valid = TRUE,
                        !.corrected_positions = <<corrections>>,
                        !.hamming_corrections = Len(corrections)]
        st2 == Bump(st, {"crc_valid"} \cup
                        (IF corrections # <<>> THEN {"hamming_corrected"} ELSE {}))
        payload_bits == bytes_to_bits(payload)
        trimmed_bits == Slice(payload_bits, 0, (Len(payload_bits) \div 7) * 7)
    IN  IF hamming74_decode(trimmed_bits).raised
        THEN Fail(r2, st2, "Final Hamming decode failed", {"hamming_failed"})
        ELSE Present(r2, st2, hamming74_decode(trimmed_bits).data_bits)

\* the Hamming branch from the unpacking of parse_frame(corrected_frame),
\* whose value is t
CheckCorrectedFrame(r, st, corrections, t) ==
    IF Unpack3(t).raised
    THEN Fail(r, st, "Frame parsing error: " \o Unpack3(t).message, {})
    ELSE IF ~t[1]
         THEN Fail(r, st, "CRC validation failed after Hamming correction",
                   {"crc_invalid"})
         ELSE FinalHammingDecode(r, st, corrections, t[3])

\* the Hamming branch from the return of _process_hamming_frame, whose
\* value is h
AfterHammingCorrection(r, st, h) ==
    IF ~h[1] THEN Fail(r, st, "Hamming processing failed", {"hamming_failed"})
    ELSE CheckCorrectedFrame(r, st, h[3], parse_frame(h[2]))

\* the branch algorithm_type == "hamming"
HammingBranch(r0, st, frame_bytes) ==
    AfterHammingCorrection([r0 EXCEPT !.algorithm = "hamming"], st,
                           process_hamming_frame(frame_bytes))

\* LayeredReceiver.process_frame up to its finally block: the result and
\* the counters
Layers(frame_bytes, st) ==
    LET r0 == NewResult(frame_bytes)
    IN  IF Len(frame_bytes) < 7 THEN Fail(r0, st, "Frame too short", {})
        ELSE LET tentative_msg_type == frame_bytes[1]
                 r1 == [r0 EXCEPT !.msg_type = tentative_msg_type]
                 algorithm_type == Classify(tentative_msg_type)
             IN  IF algorithm_type = "crc" THEN CrcBranch(r1, st, frame_bytes)
                 ELSE IF algorithm_type = "hamming" THEN HammingBranch(r1, st, frame_bytes)
                 ELSE Fail(r1, st, "Unknown message type", {})

\* a finally block that drops the new result once the buffer is full
Finally_evicting_newest(out, recent) ==
    [result |-> out.result,
     stats |-> Bump(out.stats, {"total_received"}),
     recent_results |-> IF Len(recent) + 1 > max_recent
                        THEN recent
                        ELSE Append(recent, out.result)]

\* the finally block: total_received and the recent-results buffer
Finally(out, recent) ==
    [result |-> out.result,
     stats |-> Bump(out.stats, {"total_received"}),
     recent_results |-> IF Len(recent) + 1 > max_recent
                        THEN Tail(Append(recent, out.result))
                        ELSE Append(recent, out.result)]

\* process_frame reporting an earlier failure instead of the frame's own
process_frame_sticky_failure(frame_bytes, st, recent) ==
    IF st.failed > 0
    THEN Finally(Fail(NewResult(frame_bytes), st, "Previous frame failed", {}), recent)
    ELSE Finally(Layers(frame_bytes, st), recent)

\* LayeredReceiver.process_frame: the returned result, the counters and the
\* recent-results buffer after the call
process_frame(frame_bytes, st, recent) == Finally(Layers(frame_bytes, st), recent)

\* ------------------------------------------------------------- noise.py
\* The random module: a module-level generator whose whole state is set by
\* random.seed(S) and advanced by each random.random().  The generator is a
\* full-period congruential one over RngMod states; a draw is the fraction
\* state / RngMod, in [0, 1), and a bit error rate is a number of RngMod-ths.
RngMod == 8
RngStates == 0..(RngMod - 1)

\* random.seed(S): the state depends on S alone
RandomSeed(S) == (3 * S + 1) % RngMod

\* random.random(): the state after the draw, which is also the value drawn
RandomStep(g) == (5 * g + 3) % RngMod

\* the comparison with the rate taken as inclusive (<=)
BitError_inclusive(draw, ber) == draw <= ber

\* random.random() < ber
BitError(draw, ber) == draw < ber

\* for i in range(len(bits)): draw, flip and record
RECURSIVE NoiseLoop(_, _, _, _, _)
NoiseLoop(noisy_bits, error_positions, ber, g, i) ==
    IF i >= Len(noisy_bits)
    THEN [noisy_bits |-> noisy_bits, error_positions |-> error_positions, rng |-> g]
    ELSE IF BitError(RandomStep(g), ber)
         THEN NoiseLoop(FlipAt(noisy_bits, i), Append(error_positions, i), ber,
                        RandomStep(g), i + 1)
         ELSE NoiseLoop(noisy_bits, error_positions, ber, RandomStep(g), i + 1)

\* inject_noise seeding only when the seed is truthy (if seed:)
inject_noise_truthy_seed(bits, ber, seed, g) ==
    LET r == NoiseLoop(bits, <<>>, ber,
                       IF seed # None /\ seed # 0 THEN RandomSeed(seed) ELSE g, 0)
    IN  [noisy_bits |-> r.noisy_bits, error_positions |-> r.error_positions,
         rng |-> r.rng, bits |-> bits]

\* inject_noise flipping the bits of the caller's list (noisy_bits = bits)
inject_noise_in_place(bits, ber, seed, g) ==
    LET r == NoiseLoop(bits, <<>>, ber, IF seed # None THEN RandomSeed(seed) ELSE g, 0)
    IN  [noisy_bits |-> r.noisy_bits, error_positions |-> r.error_positions,
         rng |-> r.rng, bits |-> r.noisy_bits]

\* inject_noise called with the generator in state g: the returned pair,
\* the state the generator is left in, and the caller's list after the call
\* (the loop works on bits.copy())
inject_noise(bits, ber, seed, g) ==
    LET r == NoiseLoop(bits, <<>>, ber, IF seed # None THEN RandomSeed(seed) ELSE g, 0)
    IN  [noisy_bits |-> r.noisy_bits, error_positions |-> r.error_positions,
         rng |-> r.rng, bits |-> bits]

\* LayeredReceiver.reset_stats: the counters and the buffer after the call
reset_stats == [stats |-> InitStats, recent_results |-> <<>>]

\* ----------------------------------------------- bench.py: BenchmarkRunner
\* the result dictionary process_reception starts from
NoReception ==
    [valid |-> FALSE, recovered_message |-> <<>>, corrected_positions |-> <<>>,
     error |-> NoMessage]

\* the branch msg_type == 0x02 of process_reception
ReceiveHamming(result, is_valid, payload, original_bits_len, encoded_bits_len) ==
    IF is_valid
    THEN LET payload_bits == Slice(bytes_to_bits(payload), 0, encoded_bits_len)
             h == verify_hamming(payload_bits)
         IN  IF h[3]
             THEN [result EXCEPT !.corrected_positions = h[2],
                                 !.recovered_message = bits_to_ascii(h[1], original_bits_len),
                                 !.valid = TRUE]
             ELSE [result EXCEPT !.error = "Hamming decoding failed"]
    ELSE [result EXCEPT
            !.error = "CRC validation failed - Hamming correction not implemented"]

\* BenchmarkRunner.process_reception from the tuple t that parse_frame
\* returned.  parse_frame raises for no byte string, so the handler around
\* it ('Frame too short', the header read from the raw frame) never runs.
ReceiveParsed(t) ==
    LET is_valid == t[1]
        msg_type == t[2]
        payload == t[3]
    IN  IF msg_type = 1
        THEN IF ~is_valid
             THEN [NoReception EXCEPT !.error = "CRC validation failed"]
             ELSE [NoReception EXCEPT
                     !.recovered_message = bits_to_ascii(bytes_to_bits(payload), None),
                     !.valid = TRUE]
        ELSE IF msg_type = 2
        THEN ReceiveHamming(NoReception, is_valid, payload, t[4], t[5])
        ELSE [NoReception EXCEPT
                !.error = "Unknown message type: " \o ToString(msg_type)]

process_reception(frame_bytes) == ReceiveParsed(parse_frame(frame_bytes))

\* ------------------------------------------------------ sender and channel
\* bench.py run_single_test: the frame transmitted for a message
EncodeMessage(message, algorithm) ==
    LET original_bits == ascii_to_bits(message)
        encoded_bits == apply_hamming(original_bits)
    IN  IF algorithm = "crc"
        THEN build_frame(bits_to_bytes(original_bits), 1, None, None).frame
        ELSE build_frame(bits_to_bytes(encoded_bits), 2,
                         Len(original_bits), Len(encoded_bits)).frame

\* one bit of the transmitted frame complemented: frame -> bits -> bytes
FlipFrameBit(frame_bytes, k) == bits_to_bytes(FlipAt(bytes_to_bits(frame_bytes), k))

\* ------------------------------------------------------------- input sets
SeqsUpTo(S, n) == UNION {[1..k -> S] : k \in 0..n}

Chars == {72, 105}                   \* printable ASCII: "H", "i"
Texts == SeqsUpTo(Chars, MaxTextLen)
DataWords == SeqsUpTo(Bit, MaxDataBits)
PayloadBytes == {0, 72, 255}
Payloads == SeqsUpTo(PayloadBytes, MaxPayloadLen)
LenValues == {0, 28, 65535}          \* 16-bit sub-header lengths
DamagedPayloads == SeqsUpTo(PayloadBytes, MaxDamagedLen)
DamagedLens == {<<28, 49>>}

\* ------------------------------------------------------------------- state
VARIABLES
    \* Hamming codec: encode, channel flips, decode
    hpc,             \* "off", "data", "code", "decoded"
    data_bits,       \* the data bits given to apply_hamming
    code_bits,       \* the code bits, as flipped so far
    code_flips,      \* the 0-based positions flipped in code_bits
    decoded,         \* what hamming74_decode returned
    checked,         \* what LinkLayer.verify_hamming returned
    \* frame codec: build, channel damage, parse
    fpc,             \* "off", "args", "raised", "frame", "parsed", "verified"
    fargs,           \* the arguments of build_frame
    frame,           \* the frame bytes, as damaged so far
    frame_flips,     \* the 0-based bit positions flipped in frame
    frame_cut,       \* whether trailing bytes of frame were lost
    parsed,          \* what LinkLayer.parse_frame returned
    verified,        \* what algorithms.verify_crc returned
    reception,       \* what BenchmarkRunner.process_reception returned
    \* receiver: sender, channel, LayeredReceiver
    rpc,             \* "off", "idle", "wire", "done"
    sent,            \* the message and algorithm of the frame in flight
    wire,            \* the bytes in flight, as damaged so far
    wire_flips,      \* the 0-based bit positions flipped in wire
    wire_cut,        \* whether trailing bytes of wire were lost
    stats,           \* LayeredReceiver.stats
    recent_results,  \* LayeredReceiver.recent_results
    result,          \* what process_frame returned last
    \* noise: the random module's generator and calls of inject_noise
    rng,             \* the state of the module-level generator
    noise_args,      \* the arguments (bits, ber, seed) of the observed calls
    noise_results,   \* what the observed calls returned, in order
    noise_bits,      \* the caller's list passed as bits, as it is now
    \* presentation and bit codecs
    ppc,             \* "off", "text", "bytes", "bits", "done"
    ptext,           \* the text (character codes) or byte buffer converted
    pgiven,          \* the bit list as the caller built it
    pbits,           \* the bit list
    plength,         \* original_length given to bits_to_ascii
    pout,            \* what the conversion back returned
    \* one receiver over many frames
    returned,        \* the results process_frame returned since the last reset
    \* WebSocketServer: one handle_client task per connection, one event loop
    inbox,           \* per connection, the messages that arrived and wait
    cpc,             \* per connection, the handler's position: "recv",
                     \* "layers", "finally" (both inside process_frame), "send"
    running,         \* the connection whose handler the event loop runs, or None
    local            \* per connection, the handler's frame_bytes and result

hvars == <<hpc, data_bits, code_bits, code_flips, decoded, checked>>
fvars == <<fpc, fargs, frame, frame_flips, frame_cut, parsed, verified, reception>>
rvars == <<rpc, sent, wire, wire_flips, wire_cut, stats, recent_results, result>>
nvars == <<rng, noise_args, noise_results, noise_bits>>
pvars == <<ppc, ptext, pgiven, pbits, plength, pout>>
cvars == <<inbox, cpc, running, local>>
svars == <<returned, cvars>>
vars == <<hvars, fvars, rvars, nvars, pvars, svars>>

NoArgs == [payload |-> <<>>, msg_type |-> 0, original_bits_len |-> None,
           encoded_bits_len |-> None]
NoSent == [message |-> <<>>, algorithm |-> "none", frame |-> <<>>]

NoNoiseArgs == [bits |-> <<>>, ber |-> 0, seed |-> None]

NoiseOff ==
    /\ rng = 0 /\ noise_args = NoNoiseArgs /\ noise_results = <<>>
    /\ noise_bits = <<>>
Clients == 1..NumClients
NoLocal == [frame_bytes |-> <<>>, result |-> NewResult(<<>>)]

ConnectionsOff ==
    /\ inbox = <<>> /\ cpc = <<>> /\ running = None /\ local = <<>>
ServerOff == returned = <<>> /\ ConnectionsOff
CodecOff ==
    /\ ppc = "off" /\ ptext = <<>> /\ pgiven = <<>> /\ pbits = <<>>
    /\ plength = None /\ pout = <<>>
HammingOff ==
    /\ hpc = "off" /\ data_bits = <<>> /\ code_bits = <<>>
    /\ code_flips = {} /\ decoded = hamming74_decode(<<>>)
    /\ checked = verify_hamming(<<>>)
FrameOff ==
    /\ fpc = "off" /\ fargs = NoArgs /\ frame = <<>> /\ frame_flips = {}
    /\ frame_cut = FALSE
    /\ parsed = parse_frame(<<>>) /\ verified = verify_crc(<<>>)
    /\ reception = NoReception
ReceiverOff ==
    /\ rpc = "off" /\ sent = NoSent /\ wire = <<>> /\ wire_flips = {}
    /\ wire_cut = FALSE
    /\ stats = InitStats /\ recent_results = <<>> /\ result = NewResult(<<>>)

\* ----------------------------------------------------- Hamming codec steps
HammingInit ==
    /\ hpc = "data" /\ data_bits \in DataWords /\ code_bits = <<>>
    /\ code_flips = {} /\ decoded = hamming74_decode(<<>>)
    /\ checked = verify_hamming(<<>>)
    /\ FrameOff /\ ReceiverOff /\ NoiseOff /\ CodecOff /\ ServerOff

ApplyHamming ==
    /\ hpc = "data"
    /\ code_bits' = apply_hamming(data_bits)
    /\ hpc' = "code"
    /\ UNCHANGED <<data_bits, code_flips, decoded, checked, fvars, rvars, nvars, pvars, svars>>

FlipCodeBit ==
    /\ hpc = "code"
    /\ Cardinality(code_flips) < MaxCodeFlips
    /\ \E i \in 0..(Len(code_bits) - 1) :
          /\ i \notin code_flips
          /\ code_bits' = FlipAt(code_bits, i)
          /\ code_flips' = code_flips \cup {i}
    /\ UNCHANGED <<hpc, data_bits, decoded, checked, fvars, rvars, nvars, pvars, svars>>

Hamming74Decode ==
    /\ hpc = "code"
    /\ decoded' = hamming74_decode(code_bits)
    /\ hpc' = "decoded"
    /\ UNCHANGED <<data_bits, code_bits, code_flips, checked, fvars, rvars, nvars, pvars, svars>>

HammingNext == ApplyHamming \/ FlipCodeBit \/ Hamming74Decode

SpecHamming == HammingInit /\ [][HammingNext]_vars

\* any bit list, of any length, given to the decoder
CodeWords == SeqsUpTo(Bit, MaxCodeBits)

DecodeInit ==
    /\ hpc = "code" /\ data_bits = <<>> /\ code_bits \in CodeWords
    /\ code_flips = {} /\ decoded = hamming74_decode(<<>>)
    /\ checked = verify_hamming(<<>>)
    /\ FrameOff /\ ReceiverOff /\ NoiseOff /\ CodecOff /\ ServerOff

VerifyHamming ==
    /\ hpc = "decoded"
    /\ checked' = verify_hamming(code_bits)
    /\ hpc' = "checked"
    /\ UNCHANGED <<data_bits, code_bits, code_flips, decoded, fvars, rvars, nvars, pvars, svars>>

DecodeNext == Hamming74Decode \/ VerifyHamming

SpecDecode == DecodeInit /\ [][DecodeNext]_vars

\* ------------------------------------------------------- frame codec steps
MsgTypes == {1, 2, 3}

FrameArgs ==
    {[payload |-> p, msg_type |-> m, original_bits_len |-> o, encoded_bits_len |-> e] :
        p \in Payloads, m \in MsgTypes \ {2}, o \in {None}, e \in {None}}
    \cup
    {[payload |-> p, msg_type |-> m, original_bits_len |-> o, encoded_bits_len |-> e] :
        p \in Payloads, m \in {2}, o \in LenValues \cup {None}, e \in LenValues \cup {None}}

FrameInit ==
    /\ fpc = "args" /\ fargs \in FrameArgs /\ frame = <<>> /\ frame_flips = {}
    /\ frame_cut = FALSE
    /\ parsed = parse_frame(<<>>) /\ verified = verify_crc(<<>>)
    /\ reception = NoReception
    /\ HammingOff /\ ReceiverOff /\ NoiseOff /\ CodecOff /\ ServerOff

BuildFrame ==
    /\ fpc = "args"
    /\ LET b == build_frame(fargs.payload, fargs.msg_type,
                            fargs.original_bits_len, fargs.encoded_bits_len)
       IN  /\ frame' = b.frame
           /\ fpc' = IF b.raised THEN "raised" ELSE "frame"
    /\ UNCHANGED <<fargs, frame_flips, frame_cut, parsed, verified, reception,
                   hvars, rvars, nvars, pvars, svars>>

FlipBuiltBit ==
    /\ fpc = "frame" /\ ~frame_cut
    /\ Cardinality(frame_flips) < MaxFrameFlips
    /\ \E k \in 0..(8 * Len(frame) - 1) :
          /\ k \notin frame_flips
          /\ frame' = FlipFrameBit(frame, k)
          /\ frame_flips' = frame_flips \cup {k}
    /\ UNCHANGED <<fpc, fargs, frame_cut, parsed, verified, reception,
                   hvars, rvars, nvars, pvars, svars>>

TruncateFrame ==
    /\ fpc = "frame" /\ ~frame_cut /\ frame_flips = {}
    /\ \E n \in 0..(Len(frame) - 1) : frame' = Slice(frame, 0, n)
    /\ frame_cut' = TRUE
    /\ UNCHANGED <<fpc, fargs, frame_flips, parsed, verified, reception,
                   hvars, rvars, nvars, pvars, svars>>

ParseFrame ==
    /\ fpc = "frame"
    /\ parsed' = parse_frame(frame)
    /\ fpc' = "parsed"
    /\ UNCHANGED <<fargs, frame, frame_flips, frame_cut, verified, reception,
                   hvars, rvars, nvars, pvars, svars>>

VerifyCrc ==
    /\ fpc = "parsed"
    /\ verified' = verify_crc(frame)
    /\ fpc' = "verified"
    /\ UNCHANGED <<fargs, frame, frame_flips, frame_cut, parsed, reception,
                   hvars, rvars, nvars, pvars, svars>>

\* build, parse, verify: the frame as built
FrameNext == BuildFrame \/ ParseFrame \/ VerifyCrc

SpecFrame == FrameInit /\ [][FrameNext]_vars

\* build, channel damage, parse, verify
DamagedArgs ==
    {[payload |-> p, msg_type |-> m, original_bits_len |-> o, encoded_bits_len |-> e] :
        p \in DamagedPayloads, m \in {1}, o \in {None}, e \in {None}}
    \cup
    {[payload |-> p, msg_type |-> 2, original_bits_len |-> l[1], encoded_bits_len |-> l[2]] :
        p \in DamagedPayloads, l \in DamagedLens}

DamageInit ==
    /\ fpc = "args" /\ fargs \in DamagedArgs /\ frame = <<>> /\ frame_flips = {}
    /\ frame_cut = FALSE
    /\ parsed = parse_frame(<<>>) /\ verified = verify_crc(<<>>)
    /\ reception = NoReception
    /\ HammingOff /\ ReceiverOff /\ NoiseOff /\ CodecOff /\ ServerOff

DamageNext == BuildFrame \/ FlipBuiltBit \/ TruncateFrame \/ ParseFrame \/ VerifyCrc

SpecDamage == DamageInit /\ [][DamageNext]_vars

\* a header and a body written by hand, sealed with apply_crc, then parsed:
\* buffers whose trailer is right whatever the header says
HeaderLengths == {<<0, 0>>, <<0, 1>>, <<0, 2>>, <<1, 0>>}
BodyBytes == {0, 72}
Bodies == SeqsUpTo(BodyBytes, MaxBodyLen)
SealedData == {(<<m>> \o l) \o b : m \in MsgTypes, l \in HeaderLengths, b \in Bodies}

SealedInit ==
    /\ fpc = "data" /\ fargs = NoArgs /\ frame \in SealedData /\ frame_flips = {}
    /\ frame_cut = FALSE
    /\ parsed = parse_frame(<<>>) /\ verified = verify_crc(<<>>)
    /\ reception = NoReception
    /\ HammingOff /\ ReceiverOff /\ NoiseOff /\ CodecOff /\ ServerOff

ApplyCrc ==
    /\ fpc = "data"
    /\ frame' = apply_crc(frame)
    /\ fpc' = "frame"
    /\ UNCHANGED <<fargs, frame_flips, frame_cut, parsed, verified, reception,
                   hvars, rvars, nvars, pvars, svars>>

SealedNext == ApplyCrc \/ ParseFrame \/ VerifyCrc

SpecSealed == SealedInit /\ [][SealedNext]_vars

\* ----------------------------------------- sender, channel, receiver steps
Init ==
    /\ rpc = "idle" /\ sent = NoSent /\ wire = <<>> /\ wire_flips = {}
    /\ wire_cut = FALSE
    /\ stats = InitStats /\ recent_results = <<>> /\ result = NewResult(<<>>)
    /\ HammingOff /\ FrameOff /\ NoiseOff /\ CodecOff /\ ServerOff

\* the sender transmits a message with one of the two algorithms
SendMessage ==
    /\ rpc = "idle"
    /\ \E message \in Texts, algorithm \in {"crc", "hamming"} :
          LET f == EncodeMessage(message, algorithm)
          IN  /\ sent' = [message |-> message, algorithm |-> algorithm, frame |-> f]
              /\ wire' = f
    /\ wire_flips' = {}
    /\ wire_cut' = FALSE
    /\ rpc' = "wire"
    /\ UNCHANGED <<stats, recent_results, result, hvars, fvars, nvars, pvars, svars>>

\* the channel flips one bit of the frame in flight
FlipWireBit ==
    /\ rpc = "wire" /\ ~wire_cut
    /\ Cardinality(wire_flips) < MaxWireFlips
    /\ \E k \in 0..(8 * Len(wire) - 1) :
          /\ k \notin wire_flips
          /\ wire' = FlipFrameBit(wire, k)
          /\ wire_flips' = wire_flips \cup {k}
    /\ UNCHANGED <<rpc, sent, wire_cut, stats, recent_results, result, hvars, fvars, nvars, pvars, svars>>

\* the channel flips bits of the type byte: any value can arrive
CorruptType ==
    /\ rpc = "wire" /\ ~wire_cut /\ wire_flips = {}
    /\ \E b \in Byte :
          /\ b # wire[1]
          /\ wire' = <<b>> \o Tail(wire)
          /\ wire_flips' = {k \in 0..7 : ByteBits(b)[k + 1] # ByteBits(wire[1])[k + 1]}
    /\ UNCHANGED <<rpc, sent, wire_cut, stats, recent_results, result, hvars, fvars, nvars, pvars, svars>>

\* the channel loses trailing bytes of the frame in flight
TruncateWire ==
    /\ rpc = "wire" /\ ~wire_cut /\ wire_flips = {}
    /\ \E n \in 0..(Len(wire) - 1) : wire' = Slice(wire, 0, n)
    /\ wire_cut' = TRUE
    /\ UNCHANGED <<rpc, sent, wire_flips, stats, recent_results, result, hvars, fvars, nvars, pvars, svars>>

\* the receiver processes the bytes that arrived
ProcessFrame ==
    /\ rpc = "wire"
    /\ \E out \in {process_frame(wire, stats, recent_results)} :
          /\ result' = out.result
          /\ stats' = out.stats
          /\ recent_results' = out.recent_results
    /\ rpc' = "done"
    /\ UNCHANGED <<sent, wire, wire_flips, wire_cut, hvars, fvars, nvars, pvars, svars>>

Next == SendMessage \/ FlipWireBit \/ CorruptType \/ TruncateWire \/ ProcessFrame

Spec == Init /\ [][Next]_vars

\* ------------------------------------------ one receiver, many frames
\* a frame too short, a CRC frame intact and with one payload bit flipped, a
\* Hamming frame, and a 0x02 frame without payload
ShortFrame == <<1, 0>>
SessionFrames ==
    {ShortFrame,
     EncodeMessage(<<72>>, "crc"),
     FlipFrameBit(EncodeMessage(<<72>>, "crc"), 24),
     EncodeMessage(<<72>>, "hamming"),
     apply_crc(<<2, 0, 0>>)}

SessionInit ==
    /\ rpc = "session" /\ sent = NoSent /\ wire = <<>> /\ wire_flips = {}
    /\ wire_cut = FALSE
    /\ stats = InitStats /\ recent_results = <<>> /\ result = NewResult(<<>>)
    /\ returned = <<>> /\ ConnectionsOff
    /\ HammingOff /\ FrameOff /\ NoiseOff /\ CodecOff

\* the receiver processes one more frame: any of the session frames at the
\* start, short frames afterwards
ReceiveFrame ==
    /\ rpc \in {"session", "received", "reset"}
    /\ Len(returned) < MaxBufferFrames
    /\ \E f \in (IF Len(returned) < MaxSessionFrames THEN SessionFrames
                  ELSE {ShortFrame}) :
          \E out \in {process_frame(f, stats, recent_results)} :
              /\ wire' = f
              /\ result' = out.result
              /\ stats' = out.stats
              /\ recent_results' = out.recent_results
              /\ returned' = Append(returned, out.result)
    /\ rpc' = "received"
    /\ UNCHANGED <<sent, wire_flips, wire_cut, hvars, fvars, nvars, pvars, cvars>>

ResetStats ==
    /\ rpc = "received"
    /\ stats' = reset_stats.stats
    /\ recent_results' = reset_stats.recent_results
    /\ returned' = <<>>
    /\ rpc' = "reset"
    /\ UNCHANGED <<sent, wire, wire_flips, wire_cut, result, hvars, fvars, nvars, pvars,
                   cvars>>

SessionNext == ReceiveFrame \/ ResetStats

SpecSession == SessionInit /\ [][SessionNext]_vars

\* ------------------------------------------------- benchmark reception
\* the frames of run_single_test for the message "H", and the damaged ones
BenchArgs ==
    DamagedArgs
    \cup {[payload |-> bits_to_bytes(apply_hamming(ascii_to_bits(<<72>>))),
           msg_type |-> 2, original_bits_len |-> 8, encoded_bits_len |-> 14]}

BenchInit ==
    /\ fpc = "args" /\ fargs \in BenchArgs /\ frame = <<>> /\ frame_flips = {}
    /\ frame_cut = FALSE
    /\ parsed = parse_frame(<<>>) /\ verified = verify_crc(<<>>)
    /\ reception = NoReception
    /\ HammingOff /\ ReceiverOff /\ NoiseOff /\ CodecOff /\ ServerOff

ProcessReception ==
    /\ fpc = "frame"
    /\ reception' = process_reception(frame)
    /\ fpc' = "received"
    /\ UNCHANGED <<fargs, frame, frame_flips, frame_cut, parsed, verified,
                   hvars, rvars, nvars, pvars, svars>>

BenchNext == BuildFrame \/ FlipBuiltBit \/ TruncateFrame \/ ProcessReception

SpecBench == BenchInit /\ [][BenchNext]_vars

\* --------------------------------- WebSocketServer: concurrent connections
\* The event loop runs one handler at a time and changes handler only where
\* the running one awaits: at "async for message in websocket" ("recv") and
\* at "await websocket.send" ("send").  process_frame is a plain function
\* without await: a handler that is inside it keeps the loop.

\* process_frame giving the loop away before its finally block
RunningAfter_yielding_in_process_frame(c, position) ==
    IF position \in {"recv", "finally", "send"} THEN None ELSE c

\* the handler the loop runs once the handler of c has reached position
RunningAfter(c, position) == IF position \in {"recv", "send"} THEN None ELSE c

ServerFrames == {ShortFrame, EncodeMessage(<<72>>, "crc")}

\* the frames that arrived and have not been processed to the end
RECURSIVE InFlight(_, _, _)
InFlight(boxes, positions, n) ==
    IF n = 0 THEN 0
    ELSE Len(boxes[n]) + (IF positions[n] \in {"layers", "finally"} THEN 1 ELSE 0)
         + InFlight(boxes, positions, n - 1)

ServerInit ==
    /\ rpc = "server" /\ sent = NoSent /\ wire = <<>> /\ wire_flips = {}
    /\ wire_cut = FALSE
    /\ stats = InitStats /\ recent_results = <<>> /\ result = NewResult(<<>>)
    /\ returned = <<>>
    /\ inbox = [c \in Clients |-> <<>>]
    /\ cpc = [c \in Clients |-> "recv"]
    /\ running = None
    /\ local = [c \in Clients |-> NoLocal]
    /\ HammingOff /\ FrameOff /\ NoiseOff /\ CodecOff

\* a sender's frame arrives on connection c
Arrive(c) ==
    /\ Len(returned) + InFlight(inbox, cpc, NumClients) < MaxServerFrames
    /\ \E f \in ServerFrames : inbox' = [inbox EXCEPT ![c] = Append(@, f)]
    /\ UNCHANGED <<cpc, running, local, returned, rvars, hvars, fvars, nvars, pvars>>

\* the loop resumes the handler of c with the next message: frame_bytes is
\* set and process_frame is entered
TakeMessage(c) ==
    /\ running = None /\ cpc[c] = "recv" /\ inbox[c] # <<>>
    /\ local' = [local EXCEPT ![c] = [frame_bytes |-> Head(inbox[c]),
                                      result |-> NewResult(Head(inbox[c]))]]
    /\ inbox' = [inbox EXCEPT ![c] = Tail(@)]
    /\ cpc' = [cpc EXCEPT ![c] = "layers"]
    /\ running' = RunningAfter(c, "layers")
    /\ UNCHANGED <<returned, rvars, hvars, fvars, nvars, pvars>>

\* process_frame up to its finally block
ProcessLayers(c) ==
    /\ running \in {c, None} /\ cpc[c] = "layers"
    /\ \E out \in {Layers(local[c].frame_bytes, stats)} :
          /\ stats' = out.stats
          /\ local' = [local EXCEPT ![c].result = out.result]
    /\ cpc' = [cpc EXCEPT ![c] = "finally"]
    /\ running' = RunningAfter(c, "finally")
    /\ UNCHANGED <<inbox, returned, rpc, sent, wire, wire_flips, wire_cut,
                   recent_results, result, hvars, fvars, nvars, pvars>>

\* the finally block of process_frame, the return, the response built and
\* handed to "await websocket.send"
ProcessFinally(c) ==
    /\ running \in {c, None} /\ cpc[c] = "finally"
    /\ \E out \in {Finally([result |-> local[c].result, stats |-> stats],
                             recent_results)} :
          /\ stats' = out.stats
          /\ recent_results' = out.recent_results
          /\ result' = out.result
          /\ returned' = Append(returned, out.result)
    /\ wire' = local[c].frame_bytes
    /\ cpc' = [cpc EXCEPT ![c] = "send"]
    /\ running' = RunningAfter(c, "send")
    /\ UNCHANGED <<inbox, local, rpc, sent, wire_flips, wire_cut,
                   hvars, fvars, nvars, pvars>>

\* the response is sent; the handler awaits the next message
SendResponse(c) ==
    /\ running = None /\ cpc[c] = "send"
    /\ cpc' = [cpc EXCEPT ![c] = "recv"]
    /\ running' = RunningAfter(c, "recv")
    /\ UNCHANGED <<inbox, local, returned, rvars, hvars, fvars, nvars, pvars>>

ServerNext ==
    \E c \in Clients :
        \/ Arrive(c)
        \/ TakeMessage(c)
        \/ ProcessLayers(c)
        \/ ProcessFinally(c)
        \/ SendResponse(c)

SpecServer == ServerInit /\ [][ServerNext]_vars

\* ----------------------------------------------- presentation codec steps
BoundaryChars == {32, 63, 72, 126}
PrintableTexts ==
    SeqsUpTo(BoundaryChars, MaxPrintableLen) \cup {<<c>> : c \in 32..126}
BoundaryBytes == {0, 1, 128, 255}
Buffers == SeqsUpTo(BoundaryBytes, MaxBufferLen) \cup {<<b>> : b \in Byte}
BitLists == SeqsUpTo(Bit, MaxAsciiBits)
OriginalLengths == {None} \cup 0..(MaxAsciiBits + 1)

TextInit ==
    /\ ppc = "text" /\ ptext \in PrintableTexts /\ pgiven = <<>> /\ pbits = <<>>
    /\ plength = None /\ pout = <<>>
    /\ HammingOff /\ FrameOff /\ ReceiverOff /\ NoiseOff /\ ServerOff

AsciiToBits ==
    /\ ppc = "text"
    /\ pbits' = ascii_to_bits(ptext)
    /\ ppc' = "textbits"
    /\ UNCHANGED <<ptext, pgiven, plength, pout, hvars, fvars, rvars, nvars, svars>>

BitsToAscii ==
    /\ ppc \in {"textbits", "bits"}
    /\ pout' = bits_to_ascii(pbits, plength)
    /\ ppc' = IF ppc = "textbits" THEN "textdone" ELSE "ascii"
    /\ UNCHANGED <<ptext, pgiven, pbits, plength, hvars, fvars, rvars, nvars, svars>>

TextNext == AsciiToBits \/ BitsToAscii

SpecText == TextInit /\ [][TextNext]_vars

BytesInit ==
    /\ ppc = "bytes" /\ ptext \in Buffers /\ pgiven = <<>> /\ pbits = <<>>
    /\ plength = None /\ pout = <<>>
    /\ HammingOff /\ FrameOff /\ ReceiverOff /\ NoiseOff /\ ServerOff

BytesToBits ==
    /\ ppc = "bytes"
    /\ pbits' = bytes_to_bits(ptext)
    /\ ppc' = "bytebits"
    /\ UNCHANGED <<ptext, pgiven, plength, pout, hvars, fvars, rvars, nvars, svars>>

BitsToBytes ==
    /\ ppc = "bytebits"
    /\ pout' = bits_to_bytes(pbits)
    /\ ppc' = "bytesdone"
    /\ UNCHANGED <<ptext, pgiven, pbits, plength, hvars, fvars, rvars, nvars, svars>>

BytesNext == BytesToBits \/ BitsToBytes

SpecBytes == BytesInit /\ [][BytesNext]_vars

\* any bit list packed into bytes and unpacked again
PackInit ==
    /\ ppc = "pack" /\ ptext = <<>> /\ pgiven \in BitLists /\ pbits = pgiven
    /\ plength = None /\ pout = <<>>
    /\ HammingOff /\ FrameOff /\ ReceiverOff /\ NoiseOff /\ ServerOff

PackBitList ==
    /\ ppc = "pack"
    /\ ptext' = bits_to_bytes(pbits)
    /\ pbits' = CallerBitsAfterPacking(pbits)
    /\ ppc' = "packed"
    /\ UNCHANGED <<pgiven, plength, pout, hvars, fvars, rvars, nvars, svars>>

UnpackBytes ==
    /\ ppc = "packed"
    /\ pout' = bytes_to_bits(ptext)
    /\ ppc' = "unpacked"
    /\ UNCHANGED <<ptext, pgiven, pbits, plength, hvars, fvars, rvars, nvars, svars>>

PackNext == PackBitList \/ UnpackBytes

SpecPack == PackInit /\ [][PackNext]_vars

\* any bit list given to bits_to_ascii, with or without original_length
AsciiInit ==
    /\ ppc = "bits" /\ ptext = <<>> /\ pgiven = <<>> /\ pbits \in BitLists
    /\ plength \in OriginalLengths /\ pout = <<>>
    /\ HammingOff /\ FrameOff /\ ReceiverOff /\ NoiseOff /\ ServerOff

AsciiNext == BitsToAscii

SpecAscii == AsciiInit /\ [][AsciiNext]_vars

\* ------------------------------------------------------------ noise steps
NoiseBits == SeqsUpTo(Bit, MaxNoiseBits)
BerLevels == {0, 3, RngMod}          \* 0.0, 0.375, 1.0
Seeds == {0, 1, 2}
OtherBits == {<<>>, <<0>>, <<1, 0>>}  \* bit lists of the calls in between

NoiseInit ==
    /\ rng \in RngStates
    /\ noise_args \in [bits : NoiseBits, ber : BerLevels, seed : Seeds \cup {None}]
    /\ noise_results = <<>>
    /\ noise_bits = noise_args.bits
    /\ HammingOff /\ FrameOff /\ ReceiverOff /\ CodecOff /\ ServerOff

\* an observed call: inject_noise(bits, ber, seed) with the chosen arguments
InjectNoise ==
    /\ Len(noise_results) < MaxNoiseCalls
    /\ \E out \in {inject_noise(noise_bits, noise_args.ber, noise_args.seed, rng)} :
          /\ noise_results' = Append(noise_results,
                                     <<out.noisy_bits, out.error_positions>>)
          /\ rng' = out.rng
          /\ noise_bits' = out.bits
    /\ UNCHANGED <<noise_args, hvars, fvars, rvars, pvars, svars>>

\* a random.random() somewhere else in the program
RandomDraw ==
    /\ rng' = RandomStep(rng)
    /\ UNCHANGED <<noise_args, noise_results, noise_bits, hvars, fvars, rvars, pvars, svars>>

\* a call of inject_noise with other arguments in between
OtherInjectNoise ==
    /\ \E b \in OtherBits, p \in BerLevels, s \in Seeds \cup {None} :
          rng' = inject_noise(b, p, s, rng).rng
    /\ UNCHANGED <<noise_args, noise_results, noise_bits, hvars, fvars, rvars, pvars, svars>>

NoiseNext == InjectNoise \/ RandomDraw \/ OtherInjectNoise

SpecNoise == NoiseInit /\ [][NoiseNext]_vars

\* ------------------------------------------------------------ properties
\* C1: for every 4-bit data word d and every position i in 0..6, flipping
\* bit i of apply_hamming(d) and decoding returns the data bits d and
\* corrected_positions = [i].
C1_SingleErrorCorrected ==
    (hpc = "decoded" /\ Len(data_bits) = 4 /\ Cardinality(code_flips) = 1) =>
        /\ ~decoded.raised
        /\ decoded.data_bits = data_bits
        /\ \A i \in code_flips : decoded.corrected_positions = <<i>>

C1_Witness ==
    /\ hpc = "decoded" /\ data_bits = <<1, 0, 1, 1>> /\ code_flips = {2}
    /\ code_bits = <<0, 1, 0, 0, 0, 1, 1>>
    /\ decoded.data_bits = <<1, 0, 1, 1>> /\ decoded.corrected_positions = <<2>>

\* C2: a frame built by build_frame(p, 0x01) with exactly one bit flipped,
\* wherever the bit lies, is reported invalid by parse_frame and by
\* verify_crc.
C2_SingleBitFlipDetected ==
    LET one_flip == fargs.msg_type = 1 /\ ~frame_cut /\ Cardinality(frame_flips) = 1
    IN  /\ (fpc \in {"parsed", "verified"} /\ one_flip) => ~parsed[1]
        /\ (fpc = "verified" /\ one_flip) => ~verified[1]

C2_Witness ==
    /\ fpc = "verified" /\ fargs.msg_type = 1 /\ fargs.payload = <<72>>
    /\ frame_flips = {24} /\ frame[4] = 200
    /\ ~parsed[1] /\ ~verified[1]

\* C3: parse_frame(build_frame(p, 0x01)) = (true, 0x01, p, 0, 0).
C3_CrcFrameRoundTrip ==
    (fpc \in {"parsed", "verified"} /\ fargs.msg_type = 1 /\ ~frame_cut /\ frame_flips = {})
        => parsed = <<TRUE, 1, fargs.payload, 0, 0>>

C3_Witness ==
    /\ fpc = "parsed" /\ fargs.msg_type = 1 /\ fargs.payload = <<72, 0>>
    /\ ~frame_cut /\ frame_flips = {}
    /\ parsed = <<TRUE, 1, <<72, 0>>, 0, 0>>

\* C4: parse_frame(build_frame(p, 0x02, o, e)) = (true, 0x02, p, o, e); the
\* sub-header is not part of the returned payload and the header's
\* payload_length counts only p.
C4_HammingFrameRoundTrip ==
    (fpc \in {"parsed", "verified"} /\ fargs.msg_type = 2 /\ ~frame_cut /\ frame_flips = {})
        => /\ parsed = <<TRUE, 2, fargs.payload, fargs.original_bits_len,
                         fargs.encoded_bits_len>>
           /\ BytesToInt16(Slice(frame, 1, 3)) = Len(fargs.payload)
           /\ Len(frame) = 3 + 4 + Len(fargs.payload) + 4

C4_Witness ==
    /\ fpc = "parsed" /\ fargs.msg_type = 2 /\ fargs.payload = <<255, 72>>
    /\ fargs.original_bits_len = 28 /\ fargs.encoded_bits_len = 65535
    /\ ~frame_cut /\ frame_flips = {}
    /\ parsed = <<TRUE, 2, <<255, 72>>, 28, 65535>>

\* C5: a frame of at least 7 bytes classified to the CRC path ends Failed
\* with cause "CRC validation failed" when parse_frame reports it invalid,
\* and otherwise ends Success with crc_valid and the text decoding of the
\* payload; an uncorrupted build_frame(text, 0x01) is recovered as the text.
C5_CrcPathOutcome ==
    (rpc = "done" /\ Len(wire) >= 7 /\ Classify(wire[1]) = "crc") =>
        LET p == parse_frame(wire)
        IN  IF ~p[1]
            THEN ~result.success /\ result.error_message = "CRC validation failed"
            ELSE /\ result.success
                 /\ result.crc_valid
                 /\ result.recovered_message = bits_to_ascii(bytes_to_bits(p[3]), None)
                 /\ (sent.algorithm = "crc" /\ wire = sent.frame)
                        => result.recovered_message = sent.message

\* the 0-based bit positions of the Hamming payload in a 0x02 frame
HammingPayloadPositions(f) == (8 * 7)..(8 * (Len(f) - 4) - 1)

\* C6: a HAMMING+CRC frame built from a text t is processed to success with
\* algorithm "hamming" and recovered_message = t, both uncorrupted (no
\* corrected positions) and with exactly one bit of the Hamming payload
\* flipped (one corrected position).
C6_HammingPathRecovers ==
    (/\ rpc = "done" /\ sent.algorithm = "hamming" /\ ~wire_cut
     /\ Cardinality(wire_flips) <= 1
     /\ wire_flips \subseteq HammingPayloadPositions(wire)) =>
        /\ result.success
        /\ result.algorithm = "hamming"
        /\ result.recovered_message = sent.message
        /\ Len(result.corrected_positions) = 1
        /\ wire_flips = {} => result.corrected_positions[1] = <<>>
        /\ wire_flips # {} => Len(result.corrected_positions[1]) = 1

\* C7: on the Hamming path a frame is accepted only if the CRC-32 recomputed
\* over the corrected, rebuilt frame equals the trailer of the frame as
\* received; when they differ the result is Failed with the cause "CRC
\* invalid after Hamming correction" (in the code's wording, "CRC validation
\* failed after Hamming correction").
C7_HammingPathChecksOriginalTrailer ==
    (rpc = "done" /\ Len(wire) >= 7 /\ Classify(wire[1]) = "hamming") =>
        LET h == process_hamming_frame(wire)
            original_trailer == Slice(wire, Len(wire) - 4, Len(wire))
            recomputed == Slice(h[2], Len(h[2]) - 4, Len(h[2]))
        IN  h[1] =>
              /\ result.success => recomputed = original_trailer
              /\ recomputed # original_trailer =>
                    /\ ~result.success
                    /\ result.error_message \in
                          {"CRC invalid after Hamming correction",
                           "CRC validation failed after Hamming correction"}

\* C8: process_frame returns a result for every byte string; a failed result
\* carries a non-empty error_message, a successful one none, and a frame
\* shorter than 7 bytes ends Failed with cause "Frame too short".
C8_EveryOutcomeClassified ==
    rpc = "done" =>
        /\ result.frame_size = Len(wire)
        /\ ~result.success =>
              result.error_message # NoMessage /\ result.error_message # ""
        /\ result.success => result.error_message = NoMessage
        /\ Len(wire) < 7 =>
              ~result.success /\ result.error_message = "Frame too short"

C8_Witness ==
    /\ rpc = "done" /\ wire_cut /\ Len(wire) = 6
    /\ ~result.success /\ result.error_message = "Frame too short"

\* C9: the classification of the first frame byte is total over 0..255:
\* 0x01, 0x00, 0x04, 0x05 select the CRC path and every other value the
\* Hamming path; no frame of at least 7 bytes ends with algorithm "unknown"
\* or an "Unknown message type" cause.
C9_ClassificationTotal ==
    /\ \A b \in Byte : Classify(b) = IF b \in {1, 0, 4, 5} THEN "crc" ELSE "hamming"
    /\ (rpc = "done" /\ Len(wire) >= 7) =>
          /\ result.algorithm = IF wire[1] \in {1, 0, 4, 5} THEN "crc" ELSE "hamming"
          /\ result.msg_type = wire[1]
          /\ result.error_message # "Unknown message type"

C9_Witness ==
    /\ rpc = "done" /\ Len(wire) >= 7 /\ wire[1] = 200
    /\ result.algorithm = "hamming" /\ result.msg_type = 200

\* C10: parse_frame returns is_valid = false with zero-value remaining
\* fields for every buffer shorter than 7 bytes and for every buffer whose
\* 4-byte trailer differs from the CRC-32 of the preceding bytes.
C10_ParseFailsClosed ==
    LET n == Len(frame)
        mismatch == Slice(frame, n - 4, n) # Word32ToBytes(crc32(Slice(frame, 0, n - 4)))
    IN  (fpc \in {"parsed", "verified"} /\ (n < 7 \/ mismatch))
            => parsed = <<FALSE, 0, <<>>, 0, 0>>

C10_Witness ==
    /\ fpc = "parsed" /\ Len(frame) >= 7 /\ frame_flips = {8}
    /\ fargs.msg_type = 2 /\ frame[1] = 2
    /\ parsed = <<FALSE, 0, <<>>, 0, 0>>

\* C11: for every buffer whose CRC-32 trailer is correct but whose header
\* payload_length differs from the number of payload bytes present (after
\* the 3-byte header, or after the 7-byte header of a 0x02 frame, a 0x02
\* frame too short for the sub-header included), parse_frame returns
\* is_valid = false.
C11_LengthMismatchRejected ==
    LET n == Len(frame)
        declared == BytesToInt16(Slice(frame, 1, 3))
        present == (n - 4) - (IF frame[1] = 2 THEN 7 ELSE 3)
    IN  (/\ fpc \in {"parsed", "verified"} /\ n >= 7
         /\ Slice(frame, n - 4, n) = Word32ToBytes(crc32(Slice(frame, 0, n - 4)))
         /\ declared # present)
            => ~parsed[1]

C11_Witness ==
    /\ fpc = "parsed" /\ fargs = NoArgs
    /\ Slice(frame, 0, 6) = <<1, 0, 2, 72, 72, 72>> /\ Len(frame) = 10
    /\ parsed = <<FALSE, 1, <<72, 72, 72>>, 0, 0>>

\* C12: build_frame with msg_type 0x02 fails with an argument error and
\* produces no frame whenever original_bits_len or encoded_bits_len is
\* missing; with both it puts exactly the 4-byte big-endian sub-header after
\* the 3-byte header; for any other msg_type there is no sub-header; in every
\* successful case the last 4 bytes are the big-endian CRC-32 of all the
\* preceding bytes.
C12_BuildFrameLayout ==
    LET n == Len(frame)
        p == fargs.payload
        missing == fargs.msg_type = 2 /\ (fargs.original_bits_len = None
                                          \/ fargs.encoded_bits_len = None)
        header == <<fargs.msg_type, Len(p) \div 256, Len(p) % 256>>
    IN  (fpc \notin {"off", "args"} /\ ~frame_cut /\ frame_flips = {}) =>
            /\ missing <=> fpc = "raised"
            /\ missing => frame = <<>>
            /\ (~missing /\ fargs.msg_type = 2) =>
                  /\ n = 3 + 4 + Len(p) + 4
                  /\ Slice(frame, 0, 3) = header
                  /\ Slice(frame, 3, 7) =
                        <<fargs.original_bits_len \div 256, fargs.original_bits_len % 256,
                          fargs.encoded_bits_len \div 256, fargs.encoded_bits_len % 256>>
                  /\ Slice(frame, 7, n - 4) = p
            /\ (~missing /\ fargs.msg_type # 2) =>
                  /\ n = 3 + Len(p) + 4
                  /\ Slice(frame, 0, 3) = header
                  /\ Slice(frame, 3, n - 4) = p
            /\ ~missing =>
                  Slice(frame, n - 4, n) = Word32ToBytes(crc32(Slice(frame, 0, n - 4)))

C12_Witness ==
    /\ fpc = "frame" /\ fargs.msg_type = 2 /\ fargs.payload = <<72>>
    /\ fargs.original_bits_len = 28 /\ fargs.encoded_bits_len = 65535
    /\ frame = <<2, 0, 1, 0, 28, 255, 255, 72, 163, 47, 227, 171>>

\* C13: for every bit sequence d, of one or several blocks,
\* hamming74_decode(apply_hamming(d)) returns d zero-padded on the right to a
\* multiple of 4 with an empty corrected_positions list, and the encoded
\* length is 7 * ceil(len(d) / 4).
C13_HammingRoundTrip ==
    LET blocks == (Len(data_bits) + 3) \div 4
    IN  /\ (hpc \in {"code", "decoded"} /\ code_flips = {}) =>
              Len(code_bits) = 7 * blocks
        /\ (hpc = "decoded" /\ code_flips = {}) =>
              /\ ~decoded.raised
              /\ decoded.data_bits = data_bits \o Zeros(4 * blocks - Len(data_bits))
              /\ decoded.corrected_positions = <<>>

C13_Witness ==
    /\ hpc = "decoded" /\ code_flips = {} /\ data_bits = <<1, 0, 1, 1, 1>>
    /\ Len(code_bits) = 14
    /\ decoded.data_bits = <<1, 0, 1, 1, 1, 0, 0, 0>>
    /\ decoded.corrected_positions = <<>>

\* C14: hamming74_decode fails with a length error, returning no data and no
\* corrections, for every input whose length is not a multiple of 7;
\* verify_hamming reports the same condition as ([], [], false) instead of
\* raising.
C14_LengthErrorReported ==
    /\ (hpc \in {"decoded", "checked"} /\ Len(code_bits) % 7 # 0) =>
          /\ decoded.raised
          /\ decoded.data_bits = <<>> /\ decoded.corrected_positions = <<>>
    /\ (hpc = "checked" /\ Len(code_bits) % 7 # 0) =>
          checked = <<<<>>, <<>>, FALSE>>

C14_Witness ==
    /\ hpc = "checked" /\ code_bits = <<0, 1, 1, 0, 0, 1>>
    /\ decoded.raised /\ checked = <<<<>>, <<>>, FALSE>>

\* C15: the message process_frame recovers from a Hamming frame holds no
\* character produced by padding bits: for every sent text of n characters
\* the recovered message has exactly n characters.
C15_NoPaddingCharacters ==
    (rpc = "done" /\ sent.algorithm = "hamming" /\ wire = sent.frame
     /\ Len(sent.message) >= 1) =>
        /\ result.success
        /\ Len(result.recovered_message) = Len(sent.message)

\* C16: for any bit sequence, BER and seed S, two calls
\* inject_noise(bits, ber, seed=S) return identical (noisy_bits,
\* error_positions), whatever random draws or inject_noise calls happened
\* between them.
C16_SeededNoiseDeterministic ==
    noise_args.seed # None =>
        \A i, j \in 1..Len(noise_results) : noise_results[i] = noise_results[j]

C16_Witness ==
    /\ noise_args = [bits |-> <<1, 0, 1>>, ber |-> 3, seed |-> 0]
    /\ Len(noise_results) = 2 /\ rng # RandomStep(RandomStep(RandomStep(RandomSeed(0))))
    /\ noise_results[1] = noise_results[2]
    /\ noise_results[1][2] # <<>>

\* C17: inject_noise with ber = 0 is a no-op for every input and every seed
\* (or no seed): noisy_bits equals the input and error_positions is empty.
C17_ZeroBerIsNoOp ==
    noise_args.ber = 0 =>
        \A i \in 1..Len(noise_results) :
            noise_results[i] = <<noise_args.bits, <<>>>>

C17_Witness ==
    /\ noise_args = [bits |-> <<1, 1, 0>>, ber |-> 0, seed |-> None]
    /\ Len(noise_results) = 2
    /\ noise_results[2] = <<<<1, 1, 0>>, <<>>>>

\* C18: for every text t of printable ASCII characters (codes 32..126),
\* bits_to_ascii(ascii_to_bits(t)) = t, and ascii_to_bits(t) has exactly
\* 8 * len(t) bits, most significant bit first per character.
C18_TextRoundTrip ==
    /\ ppc \in {"textbits", "textdone"} =>
          /\ Len(pbits) = 8 * Len(ptext)
          /\ \A k \in 1..Len(ptext), i \in 0..7 :
                pbits[8 * (k - 1) + i + 1] = (ptext[k] \div (2 ^ (7 - i))) % 2
    /\ ppc = "textdone" => pout = ptext

C18_Witness ==
    /\ ppc = "textdone" /\ ptext = <<72, 126, 32>>
    /\ Slice(pbits, 0, 8) = <<0, 1, 0, 0, 1, 0, 0, 0>>
    /\ pout = <<72, 126, 32>>

\* C19: for every byte buffer b, bits_to_bytes(bytes_to_bits(b)) = b, and
\* bytes_to_bits(b) has exactly 8 * len(b) bits with each byte's most
\* significant bit first.
C19_BytesRoundTrip ==
    /\ ppc \in {"bytebits", "bytesdone"} =>
          /\ Len(pbits) = 8 * Len(ptext)
          /\ \A k \in 1..Len(ptext), i \in 0..7 :
                pbits[8 * (k - 1) + i + 1] = (ptext[k] \div (2 ^ (7 - i))) % 2
    /\ ppc = "bytesdone" => pout = ptext

C19_Witness ==
    /\ ppc = "bytesdone" /\ ptext = <<1, 128, 255>>
    /\ Slice(pbits, 0, 16) = <<0, 0, 0, 0, 0, 0, 0, 1, 1, 0, 0, 0, 0, 0, 0, 0>>
    /\ pout = <<1, 128, 255>>

\* C20: bits_to_ascii never fails on any bit sequence: it truncates to
\* original_length bits when that is given, zero-pads to a multiple of 8
\* otherwise, returns exactly ceil(n / 8) characters for the n bits kept, and
\* every assembled byte outside 32..126 appears as '?' (63) while every byte
\* inside that range appears as its own character.
C20_BitsToAsciiTotal ==
    ppc = "ascii" =>
        LET n == IF plength # None /\ plength < Len(pbits) THEN plength ELSE Len(pbits)
            b(i) == IF i <= n THEN pbits[i] ELSE 0
            byte(k) == 128 * b(8 * k - 7) + 64 * b(8 * k - 6) + 32 * b(8 * k - 5)
                       + 16 * b(8 * k - 4) + 8 * b(8 * k - 3) + 4 * b(8 * k - 2)
                       + 2 * b(8 * k - 1) + b(8 * k)
        IN  /\ Len(pout) = (n + 7) \div 8
            /\ \A k \in 1..Len(pout) :
                  pout[k] = IF 32 <= byte(k) /\ byte(k) <= 126 THEN byte(k) ELSE 63

C20_Witness ==
    /\ ppc = "ascii" /\ pbits = <<0, 1, 0, 0, 1, 0, 0, 0, 1>> /\ plength = None
    /\ pout = <<72, 63>>

\* C21: bits_to_bytes zero-pads on the right only: for every bit sequence,
\* bytes_to_bits(bits_to_bytes(bits)) is bits followed by the fewest zero
\* bits that reach a multiple of 8, the empty sequence gives empty bytes,
\* and the caller's list is unchanged after the call.
C21_PadsOnTheRightOnly ==
    LET n == Len(pgiven)
    IN  /\ ppc \in {"packed", "unpacked"} =>
              /\ pbits = pgiven
              /\ Len(ptext) = (n + 7) \div 8
              /\ pgiven = <<>> => ptext = <<>>
        /\ ppc = "unpacked" =>
              /\ Len(pout) = 8 * ((n + 7) \div 8)
              /\ \A i \in 1..Len(pout) : pout[i] = IF i <= n THEN pgiven[i] ELSE 0

C21_Witness ==
    /\ ppc = "unpacked" /\ pgiven = <<1, 0, 1>> /\ pbits = <<1, 0, 1>>
    /\ ptext = <<160>>
    /\ pout = <<1, 0, 1, 0, 0, 0, 0, 0>>

\* the fields of a result that make up the reported outcome
Outcome(r) ==
    <<r.success, r.algorithm, r.msg_type, r.recovered_message, r.error_message,
      r.corrected_positions, r.crc_valid>>

\* C22: the outcome process_frame reports for a frame (success, algorithm,
\* msg_type, recovered_message, error_message, corrected_positions,
\* crc_valid) depends only on that frame's bytes: it is the same whatever
\* frames the same receiver processed before it and in whatever order.
C22_OutcomeDependsOnFrameOnly ==
    rpc = "received" =>
        /\ Outcome(result) = Outcome(process_frame(wire, InitStats, <<>>).result)
        /\ \A i \in 1..Len(returned) :
              returned[i].original_frame_hex = result.original_frame_hex
                  => Outcome(returned[i]) = Outcome(result)

C22_Witness ==
    /\ rpc = "received" /\ Len(returned) = 3
    /\ wire = apply_crc(<<2, 0, 0>>)
    /\ returned[1].original_frame_hex = result.original_frame_hex
    /\ returned[2].original_frame_hex = Hex(ShortFrame)
    /\ stats.failed = 3
    /\ Outcome(returned[1]) = Outcome(result)
    /\ result.error_message = "Hamming processing failed"

\* the handlers that are inside process_frame
InsideProcessFrame == {c \in DOMAIN cpc : cpc[c] \in {"layers", "finally"}}

\* C23: statistics aggregation is serialized across connections: with
\* several connection handlers feeding one shared LayeredReceiver,
\* process_frame executions never interleave, so after N processed frames
\* total_received = N and no counter increment or recent_results append is
\* lost.
C23_ProcessFrameSerialized ==
    rpc = "server" =>
        /\ Cardinality(InsideProcessFrame) <= 1
        /\ \A c \in InsideProcessFrame : running = c
        /\ stats.total_received = Len(returned)
        /\ recent_results = returned
        /\ InsideProcessFrame = {} =>
              stats.successful + stats.failed = Len(returned)

C23_Witness ==
    /\ rpc = "server" /\ Len(returned) = 2 /\ stats.total_received = 2
    /\ cpc[1] = "send" /\ cpc[2] = "finally" /\ running = 2
    /\ stats.failed = 3

\* the last n elements of s, or all of s when it has fewer
LastOf(s, n) == IF Len(s) <= n THEN s ELSE SubSeq(s, Len(s) - n + 1, Len(s))

\* C29: every call to process_frame, whatever its outcome, appends exactly
\* one ReceptionResult to recent_results; after any sequence of calls the
\* buffer holds at most 100 results, namely the most recent ones in arrival
\* order (the oldest is evicted first), and reset_stats empties it and zeroes
\* every counter.
C29_RecentResultsBounded ==
    rpc \in {"session", "received", "reset"} =>
        /\ Len(recent_results) <= 100
        /\ recent_results = LastOf(returned, 100)
        /\ rpc = "received" => recent_results[Len(recent_results)] = result
        /\ rpc = "reset" => recent_results = <<>> /\ stats = InitStats

C29_Witness ==
    /\ rpc = "received" /\ Len(returned) = 102 /\ Len(recent_results) = 100
    /\ returned[1].algorithm = "crc" /\ returned[3].algorithm = "hamming"
    /\ recent_results[1] = returned[3] /\ recent_results[100] = returned[102]

\* C30: after any sequence of process_frame and reset_stats calls the
\* receiver's counters satisfy total_received = successful + failed,
\* successful <= crc_valid and crc_valid + crc_invalid <= total_received:
\* each processed frame increments total_received once and exactly one of
\* successful / failed once, on every exit path.
C30_CountersConsistent ==
    rpc \in {"session", "received", "reset"} =>
        /\ stats.total_received = stats.successful + stats.failed
        /\ stats.successful <= stats.crc_valid
        /\ stats.crc_valid + stats.crc_invalid <= stats.total_received
        /\ stats.total_received = Len(returned)

C30_Witness ==
    /\ rpc = "received" /\ stats.total_received = 3 /\ stats.failed = 3
    /\ stats.hamming_failed = 1
    /\ returned[1].error_message = "Frame too short"
    /\ returned[2].algorithm = "crc" /\ returned[3].algorithm = "hamming"

\* C24: verify_crc (algorithms module) returns (false, empty payload) for
\* every frame shorter than 7 bytes; for every longer frame it returns the
\* bytes between the 3-byte header and the 4-byte trailer as payload whether
\* or not the CRC matches, with validity true exactly when the big-endian
\* trailer equals the CRC-32 of all preceding bytes.
C24_VerifyCrcContract ==
    fpc = "verified" =>
        LET n == Len(frame)
        IN  IF n < 7 THEN verified = <<FALSE, <<>>>>
            ELSE /\ verified[2] = SubSeq(frame, 4, n - 4)
                 /\ verified[1] <=>
                       SubSeq(frame, n - 3, n) = Word32ToBytes(crc32(SubSeq(frame, 1, n - 4)))

C24_Witness ==
    /\ fpc = "verified" /\ fargs.msg_type = 1 /\ fargs.payload = <<72>>
    /\ frame_flips = {63} /\ Len(frame) = 8
    /\ verified = <<FALSE, <<72>>>>

\* the blocks of the code word, the flips that fell into block b, the
\* corrections recorded at positions of block b, and the data as encoded
NumBlocks == Len(code_bits) \div 7
BlockFlips(b) == {i \in code_flips : i \div 7 = b}
BlockCorrections(b) ==
    {decoded.corrected_positions[i] : i \in
        {j \in 1..Len(decoded.corrected_positions) :
            decoded.corrected_positions[j] \div 7 = b}}
PaddedData == data_bits \o Zeros((4 - (Len(data_bits) % 4)) % 4)

C26_BlocksIndependent ==
    hpc = "decoded" =>
        LET cp == decoded.corrected_positions
        IN  /\ Len(decoded.data_bits) = 4 * NumBlocks
            /\ \A i \in 1..Len(cp) :
                  /\ cp[i] \in 0..(Len(code_bits) - 1)
                  /\ Syndrome(Slice(code_bits, 7 * (cp[i] \div 7), 7 * (cp[i] \div 7) + 7)) # 0
            /\ \A i \in 1..(Len(cp) - 1) : cp[i] < cp[i + 1]
            /\ \A b \in 0..(NumBlocks - 1) :
                  LET alone == hamming74_decode(Slice(code_bits, 7 * b, 7 * b + 7))
                  IN  /\ Cardinality(BlockCorrections(b)) <= 1
                      /\ Cardinality({i \in 1..Len(cp) : cp[i] \div 7 = b}) <= 1
                      /\ Slice(decoded.data_bits, 4 * b, 4 * b + 4) = alone.data_bits
                      /\ BlockCorrections(b) =
                            {7 * b + alone.corrected_positions[i] :
                                i \in 1..Len(alone.corrected_positions)}
                      /\ BlockFlips(b) = {} =>
                            /\ BlockCorrections(b) = {}
                            /\ Slice(decoded.data_bits, 4 * b, 4 * b + 4)
                                  = Slice(PaddedData, 4 * b, 4 * b + 4)

C26_Witness ==
    /\ hpc = "decoded" /\ data_bits = <<1, 0, 1, 1, 1>> /\ code_flips = {1, 9, 10}
    /\ Len(decoded.data_bits) = 8 /\ Len(decoded.corrected_positions) = 2
    /\ decoded.corrected_positions[1] = 1 /\ decoded.corrected_positions[2] \in 7..13
    /\ Slice(decoded.data_bits, 0, 4) = <<1, 0, 1, 1>>

\* C27: for every input, BER and seed, inject_noise returns noisy_bits of
\* the same length as the input that differs from the input at exactly the
\* indices listed in error_positions (each differing bit is the
\* complement), error_positions is strictly increasing with every index in
\* range, and the input list itself is left unchanged.
C27_NoiseFlipsListedPositions ==
    /\ noise_bits = noise_args.bits
    /\ \A c \in 1..Len(noise_results) :
          LET noisy_bits == noise_results[c][1]
              error_positions == noise_results[c][2]
              listed == {error_positions[i] : i \in 1..Len(error_positions)}
          IN  /\ Len(noisy_bits) = Len(noise_args.bits)
              /\ listed \subseteq 0..(Len(noise_args.bits) - 1)
              /\ \A i \in 1..(Len(error_positions) - 1) :
                    error_positions[i] < error_positions[i + 1]
              /\ \A k \in 0..(Len(noise_args.bits) - 1) :
                    noisy_bits[k + 1] = IF k \in listed
                                        THEN 1 - noise_args.bits[k + 1]
                                        ELSE noise_args.bits[k + 1]

C27_Witness ==
    /\ noise_args.bits = <<1, 0, 1>> /\ noise_args.ber = 3 /\ noise_bits = <<1, 0, 1>>
    /\ Len(noise_results) = 2
    /\ noise_results[1] = <<<<0, 0, 0>>, <<0, 2>>>>
    /\ noise_results[2] # noise_results[1]

\* the trailer of the frame is the CRC-32 of the bytes before it
CrcMatches(f) == Len(f) >= 4 /\ LinkVerifyCrc(f)[1]

\* C28: in the benchmark receiver BenchmarkRunner.process_reception, a frame
\* whose CRC-32 does not match is never reported valid, and its error names
\* the CRC failure: "CRC validation failed" when the frame's type byte is
\* 0x01 and "CRC validation failed - Hamming correction not implemented"
\* when it is 0x02.
C28_CrcFailureNamed ==
    (fpc = "received" /\ Len(frame) >= 7 /\ ~CrcMatches(frame)) =>
        /\ ~reception.valid
        /\ frame[1] = 1 => reception.error = "CRC validation failed"
        /\ frame[1] = 2 =>
              reception.error = "CRC validation failed - Hamming correction not implemented"

====
